---- MODULE Spec2Model ----
(***************************************************************************)
(* Model of the credential redaction Lambda of redact-pii:                 *)
(*   packages/app/src/lambdas/redact/lambda_handler.ts  (handler)          *)
(*   packages/app/src/rewriteCredential.ts              (reconcile/rewrite)*)
(*   packages/app/src/types/credentials.ts, types/s3.ts (zod schemas)      *)
(*                                                                         *)
(* Strings whose characters matter (apiKey, URL pathname) are sequences of *)
(* one-character strings.  JSON text is a sequence of alternating member   *)
(* names and member values, in the order JSON.stringify emits them.        *)
(* Every await of the code is an action boundary: the S3 GetObject, each   *)
(* SSM GetParameter / PutParameter of the Promise.all batch, the S3        *)
(* PutObject and the WriteGetObjectResponse complete one at a time and in  *)
(* any order that the code allows, interleaved with the other invocations. *)
(***************************************************************************)
EXTENDS Integers, Sequences, FiniteSets, TLC

\* ---------------------------------------------------------------- bounds
MaxEntries == 2      \* longest credentials array of an uploaded document
MaxClock == 1        \* the wall clock takes the values 0..MaxClock
MaxKeyLen == 5       \* longest apiKey handed to the codec on its own
MaxPass == 1         \* rounds of invocations that follow the first round

\* ------------------------------------------------------------- constants
MARKER == <<"*", "*", "*", "*">>   \* the literal '****'
SUFFIX == 4                        \* slice(-4)

Requests == {"r1", "r2"}           \* concurrent Lambda invocations
ClientIds == {"c1", "c2"}
BUCKET_NAME == "test-bucket"       \* EnvironmentVariables.BUCKET_NAME
DocKey == <<"k", "1">>             \* object key holding a credentials file
OtherKey == <<"k", "2">>           \* a second object key
S3Keys == {DocKey, OtherKey}
UploadStamp == 1                   \* lastUpdated of the uploaded document

\* plaintext secrets of the uploaded documents and of the initial store:
\* one shorter than the revealed suffix, one longer
Secrets == {<<"a">>, <<"a", "b", "c", "d", "e">>}

\* ------------------------------------------------- string helpers (JS)
\* String.prototype.startsWith
StartsWith(s, p) == Len(s) >= Len(p) /\ SubSeq(s, 1, Len(p)) = p

\* mutant: slice(0, n), the first n characters
SliceFirst(s, n) == IF Len(s) <= n THEN s ELSE SubSeq(s, 1, n)

\* String.prototype.slice(-n): the last n characters, all of s when shorter
SliceLast(s, n) == IF Len(s) <= n THEN s ELSE SubSeq(s, Len(s) - n + 1, Len(s))

\* String.prototype.substring(1)
Substring1(s) == IF Len(s) <= 1 THEN <<>> ELSE SubSeq(s, 2, Len(s))

\* mutant: the marker test looks for five asterisks
IsRedactedFiveStars(apiKey) == StartsWith(apiKey, MARKER \o <<"*">>)

\* apiKey.startsWith('****')
IsRedacted(apiKey) == StartsWith(apiKey, MARKER)

\* mutant: the marker is left out of the redacted value
redactCredentialNoMarker(credential) ==
    [credential EXCEPT !.apiKey = SliceLast(credential.apiKey, SUFFIX)]

\* redactCredential: { ...credential, apiKey: '****' + apiKey.slice(-4) }
redactCredential(credential) ==
    [credential EXCEPT !.apiKey = MARKER \o SliceLast(credential.apiKey, SUFFIX)]

\* mutant: one parameter name for every client
ParamNameShared(clientId) == <<"pii", "credentials">>

\* `/pii/${clientId}/credentials`
ParamName(clientId) == <<"pii", clientId, "credentials">>
ParamNames == {ParamName(c) : c \in ClientIds}

\* ------------------------------------------------------------ JSON, zod
\* JSON.stringify of a Credential: members in the object's own order
StringifyCredential(c) == <<"clientId", c.clientId, "apiKey", c.apiKey>>

\* JSON.stringify of a CredentialsFile built as { lastUpdated, credentials }
StringifyFile(f) ==
    <<"lastUpdated", f.lastUpdated,
      "credentials", [i \in 1..Len(f.credentials) |-> StringifyCredential(f.credentials[i])]>>

\* JSON.parse accepts a text exactly when it is a complete member list
IsJson(text) == Len(text) % 2 = 0

\* the members of a parsed object: name -> value (the last duplicate wins)
Members(text) == {text[2 * i - 1] : i \in 1..(Len(text) \div 2)}
Member(text, name) ==
    LET idx == {i \in 1..(Len(text) \div 2) : text[2 * i - 1] = name}
        last == CHOOSE i \in idx : \A j \in idx : j <= i
    IN  text[2 * last]

\* CredentialSchema.safeParse(JSON.parse(text)).success
IsCredentialText(text) ==
    IsJson(text) /\ {"clientId", "apiKey"} \subseteq Members(text)

\* CredentialSchema.parse(JSON.parse(text)): unknown members are stripped
ParseCredential(text) ==
    [clientId |-> Member(text, "clientId"), apiKey |-> Member(text, "apiKey")]

\* CredentialsFileSchema.safeParse(JSON.parse(text)).success
IsFileText(text) ==
    /\ IsJson(text)
    /\ {"lastUpdated", "credentials"} \subseteq Members(text)
    /\ \A i \in 1..Len(Member(text, "credentials")) :
           IsCredentialText(Member(text, "credentials")[i])

\* CredentialsFileSchema.parse(JSON.parse(text))
ParseFile(text) ==
    LET cs == Member(text, "credentials")
    IN  [lastUpdated |-> Member(text, "lastUpdated"),
         credentials |-> [i \in 1..Len(cs) |-> ParseCredential(cs[i])]]

\* ---------------------------------------------------------------- state
VARIABLES
    s3,       \* the bucket: object key -> object
    ssm,      \* the parameter store: parameter name -> parameter
    clock,    \* the wall clock read by new Date()
    pc,       \* per invocation: the await the handler is suspended at
    event,    \* per invocation: the S3ObjectLambdaEvent
    file,     \* per invocation: originalContent / credentialsFile
    ops,      \* per invocation: state of each storeCredential promise
    res,      \* per invocation: value each storeCredential promise resolved to
    put,      \* per invocation: input of the PutObjectCommand
    out,      \* per invocation: updatedCredentialsFile
    err,      \* per invocation: the error the handler rejected with
    hist,     \* per invocation: calls issued and effects achieved (history)
    codec     \* the redaction codec applied to one apiKey on its own

vars == <<s3, ssm, clock, pc, event, file, ops, res, put, out, err, hist, codec>>

NoObject == [exists |-> FALSE, hasBody |-> FALSE, body |-> <<>>]
Object(text) == [exists |-> TRUE, hasBody |-> TRUE, body |-> text]
NoParameter == [exists |-> FALSE, value |-> <<>>]
Parameter(text) == [exists |-> TRUE, value |-> text]

NoCredential == [clientId |-> "", apiKey |-> <<>>]
NoFile == [lastUpdated |-> 0, credentials |-> <<>>]
NoEvent == [valid |-> FALSE, pathname |-> <<>>, outputRoute |-> "", outputToken |-> ""]
NoPut == [Bucket |-> "", Key |-> <<>>, Body |-> <<>>, lastUpdated |-> 0]
NoCodec ==
    [clientId |-> "c1",      \* the credential handed to the codec
     apiKey |-> <<>>,
     step |-> "off",         \* off, input, redacted, tested
     redacted |-> <<>>,      \* redactCredential(...).apiKey
     wasRedacted |-> FALSE,  \* apiKey.startsWith('****')
     isRedacted |-> FALSE]   \* redacted.startsWith('****')
NoHist ==
    [pass |-> 0,          \* round of invocations this one belongs to
     raced |-> FALSE,     \* the round before saw concurrent puts for one client
     prior |-> {},        \* invocations that had ended when this one began
     s3Get |-> 0,         \* GetObjectCommand sent
     ssmGet |-> 0,        \* GetParameterCommand sent
     reads |-> {},        \* GetParameterCommand results: entry, name, value
     missing |-> {},      \* entries whose GetParameterCommand found no parameter
     ssmPut |-> 0,        \* PutParameterCommand sent
     ssmPutOk |-> 0,      \* PutParameterCommand applied
     late |-> 0,          \* PutParameterCommand applied after the handler rejected
     s3Put |-> 0,         \* PutObjectCommand sent
     written |-> <<>>,    \* PutObjectCommand inputs applied to the bucket
     deliver |-> 0,       \* WriteGetObjectResponseCommand sent
     delivered |-> <<>>]  \* WriteGetObjectResponseCommand inputs accepted

\* ----------------------------------------------------------- input space
\* values an uploaded apiKey takes: a plaintext secret or a redacted one
ApiKeys == Secrets \cup {MARKER \o SliceLast(s, SUFFIX) : s \in Secrets}
Credentials == [clientId : ClientIds, apiKey : ApiKeys]

\* all sequences over S of length 0..n
RECURSIVE SeqsUpTo(_, _)
SeqsUpTo(S, n) ==
    IF n = 0 THEN {<<>>}
    ELSE LET shorter == SeqsUpTo(S, n - 1)
         IN  shorter \cup {Append(q, x) : q \in {p \in shorter : Len(p) = n - 1}, x \in S}

UploadedFiles ==
    {[lastUpdated |-> UploadStamp, credentials |-> cs] : cs \in SeqsUpTo(Credentials, MaxEntries)}

\* objects GetObject can find under DocKey: a credentials file, an object
\* without body, a body that is not JSON, JSON that is not a credentials file
BadJsonText == <<"{">>
BadSchemaText == <<"lastUpdated", UploadStamp>>
UploadedObjects ==
    {Object(StringifyFile(f)) : f \in UploadedFiles}
        \cup {[exists |-> TRUE, hasBody |-> FALSE, body |-> <<>>],
              Object(BadJsonText), Object(BadSchemaText)}

\* the parameter store starts with canonical (plaintext) records only
InitialParameters(c) ==
    {NoParameter} \cup
        {Parameter(StringifyCredential([clientId |-> c, apiKey |-> s])) : s \in Secrets}

\* userRequest.url pathnames: '/', '/k1', '/k2'
Pathnames == {<<"/">>, <<"/">> \o DocKey, <<"/">> \o OtherKey}

\* getObjectContext of invocation r
RouteOf(r) == <<"route", r>>
TokenOf(r) == <<"token", r>>

\* the events invocation r can receive: one that fails the event schema, or
\* a well-formed one for each pathname
EventsOf(r) ==
    {[valid |-> FALSE, pathname |-> <<>>, outputRoute |-> "", outputToken |-> ""]}
        \cup {[valid |-> TRUE, pathname |-> p,
               outputRoute |-> RouteOf(r), outputToken |-> TokenOf(r)] : p \in Pathnames}

Init ==
    /\ s3 \in {[k \in S3Keys |-> IF k = DocKey THEN o ELSE NoObject] : o \in UploadedObjects}
    /\ ssm \in {[n \in ParamNames |-> IF n = ParamName("c1") THEN p1 ELSE p2] :
                    p1 \in InitialParameters("c1"), p2 \in InitialParameters("c2")}
    /\ clock = 0
    /\ pc = [r \in Requests |-> "idle"]
    /\ event = [r \in Requests |-> NoEvent]
    /\ file = [r \in Requests |-> NoFile]
    /\ ops = [r \in Requests |-> <<>>]
    /\ res = [r \in Requests |-> <<>>]
    /\ put = [r \in Requests |-> NoPut]
    /\ out = [r \in Requests |-> NoFile]
    /\ err = [r \in Requests |-> ""]
    /\ hist = [r \in Requests |-> NoHist]
    /\ codec = NoCodec

\* -------------------------------------------------------------- actions
Ended(r) == pc[r] \in {"done", "failed"}

\* mutant: the catch block throws a new, generic error
RejectWrapped(r, e) ==
    pc' = [pc EXCEPT ![r] = "failed"] /\ err' = [err EXCEPT ![r] = "Error"]

\* the handler rejects with error e (catch: logger.error, throw error)
Reject(r, e) == pc' = [pc EXCEPT ![r] = "failed"] /\ err' = [err EXCEPT ![r] = e]

\* parseS3ObjectKeyInfo: urlObj.pathname.substring(1)
parseS3ObjectKeyInfo(pathname) == Substring1(pathname)
KeyOf(r) == parseS3ObjectKeyInfo(event[r].pathname)

\* handler entry: S3ObjectLambdaEventSchema.parse(event), then fetchFromS3 up
\* to its first await (the GetObjectCommand is sent)
Start(r) ==
    /\ pc[r] = "idle"
    /\ \E ev \in EventsOf(r) :
        LET prior == {q \in Requests : Ended(q)}
        IN  /\ event' = [event EXCEPT ![r] = ev]
            /\ IF ~ev.valid
               THEN /\ Reject(r, "ZodError")
                    /\ hist' = [hist EXCEPT ![r].prior = prior]
               ELSE IF parseS3ObjectKeyInfo(ev.pathname) = <<>>
               THEN /\ Reject(r, "Unable to parse object key from URL")
                    /\ hist' = [hist EXCEPT ![r].prior = prior]
               ELSE /\ pc' = [pc EXCEPT ![r] = "fetch"]
                    /\ hist' = [hist EXCEPT ![r].prior = prior, ![r].s3Get = 1]
                    /\ UNCHANGED err
    /\ UNCHANGED <<s3, ssm, clock, file, ops, res, put, out, codec>>

\* number of entries of cs that satisfy / do not satisfy startsWith('****')
CountRedacted(cs) == Cardinality({i \in 1..Len(cs) : IsRedacted(cs[i].apiKey)})
CountPlain(cs) == Cardinality({i \in 1..Len(cs) : ~IsRedacted(cs[i].apiKey)})

\* mutant: a failed fetch is answered with a WriteGetObjectResponse
FetchFailResponds(r) ==
    /\ pc[r] = "fetch"
    /\ Reject(r, "S3GetError")
    /\ hist' = [hist EXCEPT ![r].deliver = @ + 1]
    /\ UNCHANGED <<s3, ssm, clock, event, file, ops, res, put, out, codec>>

\* fetchFromS3 throws: the GetObjectCommand fails (transiently, or because
\* there is no such key), the response has no Body, the body is not JSON, or
\* the JSON is not a credentials file
FetchFail(r) ==
    /\ pc[r] = "fetch"
    /\ \E e \in {"S3GetError"} \cup
                (IF ~s3[KeyOf(r)].exists THEN {"NoSuchKey"}
                 ELSE IF ~s3[KeyOf(r)].hasBody THEN {"No body in S3 response"}
                 ELSE IF ~IsJson(s3[KeyOf(r)].body) THEN {"SyntaxError"}
                 ELSE IF ~IsFileText(s3[KeyOf(r)].body) THEN {"ZodError"}
                 ELSE {}) :
           Reject(r, e)
    /\ UNCHANGED <<s3, ssm, clock, event, file, ops, res, put, out, hist, codec>>

\* the GetObjectCommand resolves with a credentials file; the handler calls
\* rewriteS3ObjectFile, whose map(storeCredential) sends one SSM command per
\* entry before the first await returns
Fetch(r) ==
    /\ pc[r] = "fetch"
    /\ s3[KeyOf(r)].exists
    /\ s3[KeyOf(r)].hasBody
    /\ IsFileText(s3[KeyOf(r)].body)
    /\ LET f == ParseFile(s3[KeyOf(r)].body)
           n == Len(f.credentials)
       IN  /\ file' = [file EXCEPT ![r] = f]
           /\ ops' = [ops EXCEPT ![r] = [i \in 1..n |-> "pending"]]
           /\ res' = [res EXCEPT ![r] = [i \in 1..n |-> NoCredential]]
           /\ hist' = [hist EXCEPT ![r].ssmGet = CountRedacted(f.credentials),
                                   ![r].ssmPut = CountPlain(f.credentials)]
    /\ pc' = [pc EXCEPT ![r] = "reconcile"]
    /\ UNCHANGED <<s3, ssm, clock, event, put, out, err, codec>>

\* mutant: a rejection cancels the operations still in flight
OpRejectCancels(r, i, e) ==
    /\ ops' = [ops EXCEPT ![r] = [j \in DOMAIN ops[r] |->
                                     IF j = i \/ ops[r][j] = "pending"
                                     THEN "failed" ELSE ops[r][j]]]
    /\ IF pc[r] = "reconcile" THEN Reject(r, e) ELSE UNCHANGED <<pc, err>>

\* mutant: a rejected storeCredential promise counts as resolved
OpRejectResolves(r, i, e) ==
    /\ ops' = [ops EXCEPT ![r][i] = "done"]
    /\ UNCHANGED <<pc, err>>

\* mutant: a rejected storeCredential promise is swallowed
OpRejectSwallowed(r, i, e) ==
    /\ ops' = [ops EXCEPT ![r][i] = "failed"]
    /\ UNCHANGED <<pc, err>>

\* a storeCredential promise rejects: Promise.all rejects with the first
\* rejection, the handler's catch rethrows it; later rejections are dropped
OpReject(r, i, e) ==
    /\ ops' = [ops EXCEPT ![r][i] = "failed"]
    /\ IF pc[r] = "reconcile" THEN Reject(r, e) ELSE UNCHANGED <<pc, err>>

\* mutant: the redacted branch returns its argument
StoredCredentialEcho(credential, value) == credential

\* storeCredential, redacted branch, return value:
\* CredentialSchema.parse(JSON.parse(storedParameter.Parameter!.Value!))
StoredCredential(credential, value) == ParseCredential(value)

\* storeCredential, redacted branch: the GetParameterCommand completes
SsmGet(r, i) ==
    /\ i \in DOMAIN ops[r]
    /\ ops[r][i] = "pending"
    /\ IsRedacted(file[r].credentials[i].apiKey)
    /\ LET p == ssm[ParamName(file[r].credentials[i].clientId)]
       IN  \/ /\ p.exists
              /\ IsCredentialText(p.value)
              /\ res' = [res EXCEPT ![r][i] = StoredCredential(file[r].credentials[i], p.value)]
              /\ ops' = [ops EXCEPT ![r][i] = "done"]
              /\ hist' = [hist EXCEPT ![r].reads = @ \cup
                             {[entry |-> i,
                               name |-> ParamName(file[r].credentials[i].clientId),
                               value |-> p.value]}]
              /\ UNCHANGED <<pc, err>>
           \/ /\ ~p.exists
              /\ OpReject(r, i, "ParameterNotFound")
              /\ hist' = [hist EXCEPT ![r].missing = @ \cup {i}]
              /\ UNCHANGED res
           \/ /\ p.exists
              /\ ~IsCredentialText(p.value)
              /\ OpReject(r, i, "ZodError")
              /\ UNCHANGED <<res, hist>>
           \/ /\ OpReject(r, i, "SsmGetError")
              /\ UNCHANGED <<res, hist>>
    /\ UNCHANGED <<s3, ssm, clock, event, file, put, out, codec>>

\* mutant: the redacted credential is stored
ParameterValueRedacted(credential) == StringifyCredential(redactCredential(credential))

\* storeCredential, plaintext branch: Value: JSON.stringify(credential)
ParameterValue(credential) == StringifyCredential(credential)

\* mutant: the parameter is deleted before it is put
SsmPutDeleteFirst(r, i) ==
    /\ i \in DOMAIN ops[r]
    /\ ops[r][i] = "pending"
    /\ ~IsRedacted(file[r].credentials[i].apiKey)
    /\ LET credential == file[r].credentials[i]
       IN  \/ /\ ssm' = [ssm EXCEPT ![ParamName(credential.clientId)] =
                                         Parameter(ParameterValue(credential))]
              /\ res' = [res EXCEPT ![r][i] = credential]
              /\ ops' = [ops EXCEPT ![r][i] = "done"]
              /\ hist' = [hist EXCEPT ![r].ssmPutOk = @ + 1,
                                      ![r].late = @ + (IF Ended(r) THEN 1 ELSE 0)]
              /\ UNCHANGED <<pc, err>>
           \/ /\ OpReject(r, i, "SsmPutError")
              /\ ssm' = [ssm EXCEPT ![ParamName(credential.clientId)] = NoParameter]
              /\ UNCHANGED <<res, hist>>
    /\ UNCHANGED <<s3, clock, event, file, put, out, codec>>

\* mutant: an existing parameter is kept (Overwrite: false, error ignored)
SsmPutKeepsExisting(r, i) ==
    /\ i \in DOMAIN ops[r]
    /\ ops[r][i] = "pending"
    /\ ~IsRedacted(file[r].credentials[i].apiKey)
    /\ LET credential == file[r].credentials[i]
       IN  \/ /\ ssm' = [ssm EXCEPT ![ParamName(credential.clientId)] =
                                         IF @.exists THEN @
                                         ELSE Parameter(ParameterValue(credential))]
              /\ res' = [res EXCEPT ![r][i] = credential]
              /\ ops' = [ops EXCEPT ![r][i] = "done"]
              /\ hist' = [hist EXCEPT ![r].ssmPutOk = @ + 1,
                                      ![r].late = @ + (IF Ended(r) THEN 1 ELSE 0)]
              /\ UNCHANGED <<pc, err>>
           \/ /\ OpReject(r, i, "SsmPutError")
              /\ UNCHANGED <<ssm, res, hist>>
    /\ UNCHANGED <<s3, clock, event, file, put, out, codec>>

\* storeCredential, plaintext branch: the PutParameterCommand completes
SsmPut(r, i) ==
    /\ i \in DOMAIN ops[r]
    /\ ops[r][i] = "pending"
    /\ ~IsRedacted(file[r].credentials[i].apiKey)
    /\ LET credential == file[r].credentials[i]
       IN  \/ /\ ssm' = [ssm EXCEPT ![ParamName(credential.clientId)] =
                                         Parameter(ParameterValue(credential))]
              /\ res' = [res EXCEPT ![r][i] = credential]
              /\ ops' = [ops EXCEPT ![r][i] = "done"]
              /\ hist' = [hist EXCEPT ![r].ssmPutOk = @ + 1,
                                      ![r].late = @ + (IF Ended(r) THEN 1 ELSE 0)]
              /\ UNCHANGED <<pc, err>>
           \/ /\ OpReject(r, i, "SsmPutError")
              /\ UNCHANGED <<ssm, res, hist>>
    /\ UNCHANGED <<s3, clock, event, file, put, out, codec>>

\* mutant: the resolved credentials are never assigned
ResolvedUnassigned(f, results) == f

\* updatedCredentialsFile = { ...credentialsFile } with credentials replaced by
\* the values the storeCredential promises resolved to
Resolved(f, results) == [f EXCEPT !.credentials = results]

\* mutant: the barrier only waits until no promise has rejected
AllDoneNoneRejected(r) == \A i \in DOMAIN ops[r] : ops[r][i] # "failed"

AllDone(r) == \A i \in DOMAIN ops[r] : ops[r][i] = "done"

\* mutant: only the first credential is tested
NeedsRedactionFirst(f) ==
    Len(f.credentials) > 0 /\ ~IsRedacted(f.credentials[1].apiKey)

\* mutant: every() in place of some()
NeedsRedactionEvery(f) == \A i \in 1..Len(f.credentials) : ~IsRedacted(f.credentials[i].apiKey)

\* mutant: the file is rewritten on every request
NeedsRedactionAlways(f) == TRUE

\* credentialsFile.credentials.some((cred) => !cred.apiKey.startsWith('****'))
NeedsRedaction(f) == \E i \in 1..Len(f.credentials) : ~IsRedacted(f.credentials[i].apiKey)

\* mutant: the entries are written back as they were fetched
RedactAllNone(f) == f.credentials

\* mutant: the redacted entries are written in reverse order
RedactAllReversed(f) ==
    [i \in 1..Len(f.credentials) |->
        redactCredential(f.credentials[Len(f.credentials) + 1 - i])]

\* credentialsFile.credentials.map(redactCredential)
RedactAll(f) == [i \in 1..Len(f.credentials) |-> redactCredential(f.credentials[i])]

\* mutant: the PutObjectCommand is not awaited
RedactNotAwaited(r) ==
    /\ pc[r] = "reconcile"
    /\ AllDone(r)
    /\ NeedsRedaction(file[r])
    /\ \E now \in clock..MaxClock :
        /\ clock' = now
        /\ put' = [put EXCEPT ![r] =
                      [Bucket |-> BUCKET_NAME, Key |-> KeyOf(r), lastUpdated |-> now,
                       Body |-> StringifyFile([lastUpdated |-> now,
                                                credentials |-> RedactAll(file[r])])]]
        /\ out' = [out EXCEPT ![r] = [Resolved(file[r], res[r]) EXCEPT !.lastUpdated = now]]
    /\ pc' = [pc EXCEPT ![r] = "respond"]
    /\ hist' = [hist EXCEPT ![r].s3Put = @ + 1, ![r].deliver = @ + 1]
    /\ UNCHANGED <<s3, ssm, event, file, ops, res, err, codec>>

\* mutant: the PutObjectCommand names one fixed key
RedactFixedKey(r) ==
    /\ pc[r] = "reconcile"
    /\ AllDone(r)
    /\ NeedsRedaction(file[r])
    /\ \E now \in clock..MaxClock :
        /\ clock' = now
        /\ put' = [put EXCEPT ![r] =
                      [Bucket |-> BUCKET_NAME, Key |-> DocKey, lastUpdated |-> now,
                       Body |-> StringifyFile([lastUpdated |-> now,
                                                credentials |-> RedactAll(file[r])])]]
    /\ out' = [out EXCEPT ![r] = Resolved(file[r], res[r])]
    /\ pc' = [pc EXCEPT ![r] = "rewrite"]
    /\ hist' = [hist EXCEPT ![r].s3Put = @ + 1]
    /\ UNCHANGED <<s3, ssm, event, file, ops, res, err, codec>>

\* Promise.all resolved and the file needs redaction: the redacted file is
\* built, stamped with new Date().toISOString() and the PutObjectCommand sent
Redact(r) ==
    /\ pc[r] = "reconcile"
    /\ AllDone(r)
    /\ NeedsRedaction(file[r])
    /\ \E now \in clock..MaxClock :
        /\ clock' = now
        /\ put' = [put EXCEPT ![r] =
                      [Bucket |-> BUCKET_NAME, Key |-> KeyOf(r), lastUpdated |-> now,
                       Body |-> StringifyFile([lastUpdated |-> now,
                                                credentials |-> RedactAll(file[r])])]]
    /\ out' = [out EXCEPT ![r] = Resolved(file[r], res[r])]
    /\ pc' = [pc EXCEPT ![r] = "rewrite"]
    /\ hist' = [hist EXCEPT ![r].s3Put = @ + 1]
    /\ UNCHANGED <<s3, ssm, event, file, ops, res, err, codec>>

\* Promise.all resolved and every entry was redacted already: no PutObject,
\* rewriteS3ObjectFile returns and writeResponse sends its command
NoRedact(r) ==
    /\ pc[r] = "reconcile"
    /\ AllDone(r)
    /\ ~NeedsRedaction(file[r])
    /\ out' = [out EXCEPT ![r] = Resolved(file[r], res[r])]
    /\ pc' = [pc EXCEPT ![r] = "respond"]
    /\ hist' = [hist EXCEPT ![r].deliver = @ + 1]
    /\ UNCHANGED <<s3, ssm, clock, event, file, ops, res, put, err, codec>>

\* mutant: a failed PutObjectCommand is sent once more
S3PutRetry(r) ==
    /\ pc[r] = "rewrite"
    /\ \/ /\ s3' = [s3 EXCEPT ![put[r].Key] = Object(put[r].Body)]
          /\ out' = [out EXCEPT ![r].lastUpdated = put[r].lastUpdated]
          /\ pc' = [pc EXCEPT ![r] = "respond"]
          /\ hist' = [hist EXCEPT ![r].written = Append(@, put[r]), ![r].deliver = @ + 1]
          /\ UNCHANGED err
       \/ /\ hist[r].s3Put < 2
          /\ hist' = [hist EXCEPT ![r].s3Put = @ + 1]
          /\ UNCHANGED <<s3, out, pc, err>>
       \/ /\ hist[r].s3Put >= 2
          /\ Reject(r, "S3PutError")
          /\ UNCHANGED <<s3, out, hist>>
    /\ UNCHANGED <<ssm, clock, event, file, ops, res, put, codec>>

\* mutant: the returned file is stamped with a second reading of the clock
S3PutSecondStamp(r) ==
    /\ pc[r] = "rewrite"
    /\ \/ /\ s3' = [s3 EXCEPT ![put[r].Key] = Object(put[r].Body)]
          /\ \E now \in clock..MaxClock :
                /\ clock' = now
                /\ out' = [out EXCEPT ![r].lastUpdated = now]
          /\ pc' = [pc EXCEPT ![r] = "respond"]
          /\ hist' = [hist EXCEPT ![r].written = Append(@, put[r]), ![r].deliver = @ + 1]
          /\ UNCHANGED err
       \/ /\ Reject(r, "S3PutError")
          /\ UNCHANGED <<s3, clock, out, hist>>
    /\ UNCHANGED <<ssm, event, file, ops, res, put, codec>>

\* mutant: the returned file keeps the fetched lastUpdated
S3PutKeepsStamp(r) ==
    /\ pc[r] = "rewrite"
    /\ \/ /\ s3' = [s3 EXCEPT ![put[r].Key] = Object(put[r].Body)]
          /\ pc' = [pc EXCEPT ![r] = "respond"]
          /\ hist' = [hist EXCEPT ![r].written = Append(@, put[r]), ![r].deliver = @ + 1]
          /\ UNCHANGED <<out, err>>
       \/ /\ Reject(r, "S3PutError")
          /\ UNCHANGED <<s3, out, hist>>
    /\ UNCHANGED <<ssm, clock, event, file, ops, res, put, codec>>

\* the PutObjectCommand completes; on success lastUpdated is updated and
\* writeResponse sends its command
S3Put(r) ==
    /\ pc[r] = "rewrite"
    /\ \/ /\ s3' = [s3 EXCEPT ![put[r].Key] = Object(put[r].Body)]
          /\ out' = [out EXCEPT ![r].lastUpdated = put[r].lastUpdated]
          /\ pc' = [pc EXCEPT ![r] = "respond"]
          /\ hist' = [hist EXCEPT ![r].written = Append(@, put[r]), ![r].deliver = @ + 1]
          /\ UNCHANGED err
       \/ /\ Reject(r, "S3PutError")
          /\ UNCHANGED <<s3, out, hist>>
    /\ UNCHANGED <<ssm, clock, event, file, ops, res, put, codec>>

\* mutant: a failed response puts the fetched document back
RespondRollsBack(r) ==
    /\ pc[r] = "respond"
    /\ \/ /\ hist' = [hist EXCEPT ![r].delivered =
                        Append(@, [RequestRoute |-> event[r].outputRoute,
                                   RequestToken |-> event[r].outputToken,
                                   Body |-> StringifyFile(out[r]),
                                   ContentType |-> "application/json"])]
          /\ pc' = [pc EXCEPT ![r] = "done"]
          /\ UNCHANGED <<s3, err>>
       \/ /\ Reject(r, "WriteGetObjectResponseError")
          /\ s3' = [s3 EXCEPT ![KeyOf(r)] = Object(StringifyFile(file[r]))]
          /\ UNCHANGED hist
    /\ UNCHANGED <<ssm, clock, event, file, ops, res, put, out, codec>>

\* mutant: the output token is passed as the route
RespondTokenAsRoute(r) ==
    /\ pc[r] = "respond"
    /\ \/ /\ hist' = [hist EXCEPT ![r].delivered =
                        Append(@, [RequestRoute |-> event[r].outputToken,
                                   RequestToken |-> event[r].outputToken,
                                   Body |-> StringifyFile(out[r]),
                                   ContentType |-> "application/json"])]
          /\ pc' = [pc EXCEPT ![r] = "done"]
          /\ UNCHANGED err
       \/ /\ Reject(r, "WriteGetObjectResponseError")
          /\ UNCHANGED hist
    /\ UNCHANGED <<s3, ssm, clock, event, file, ops, res, put, out, codec>>

\* writeResponse: the WriteGetObjectResponseCommand completes
Respond(r) ==
    /\ pc[r] = "respond"
    /\ \/ /\ hist' = [hist EXCEPT ![r].delivered =
                        Append(@, [RequestRoute |-> event[r].outputRoute,
                                   RequestToken |-> event[r].outputToken,
                                   Body |-> StringifyFile(out[r]),
                                   ContentType |-> "application/json"])]
          /\ pc' = [pc EXCEPT ![r] = "done"]
          /\ UNCHANGED err
       \/ /\ Reject(r, "WriteGetObjectResponseError")
          /\ UNCHANGED hist
    /\ UNCHANGED <<s3, ssm, clock, event, file, ops, res, put, out, codec>>

Next ==
    \E r \in Requests :
        \/ Start(r)
        \/ FetchFail(r)
        \/ Fetch(r)
        \/ \E i \in 1..MaxEntries : SsmGet(r, i)
        \/ \E i \in 1..MaxEntries : SsmPut(r, i)
        \/ Redact(r)
        \/ NoRedact(r)
        \/ S3Put(r)
        \/ Respond(r)

Spec == Init /\ [][Next]_vars

\* ------------------------------------------------ the codec on its own
\* redactCredential and the startsWith('****') test applied to every apiKey
\* over a three-letter alphabet, with no request in progress
Alphabet == {"*", "a", "b"}
CodecInputs == SeqsUpTo(Alphabet, MaxKeyLen)

CodecInit ==
    /\ s3 = [k \in S3Keys |-> NoObject]
    /\ ssm = [n \in ParamNames |-> NoParameter]
    /\ clock = 0
    /\ pc = [r \in Requests |-> "idle"]
    /\ event = [r \in Requests |-> NoEvent]
    /\ file = [r \in Requests |-> NoFile]
    /\ ops = [r \in Requests |-> <<>>]
    /\ res = [r \in Requests |-> <<>>]
    /\ put = [r \in Requests |-> NoPut]
    /\ out = [r \in Requests |-> NoFile]
    /\ err = [r \in Requests |-> ""]
    /\ hist = [r \in Requests |-> NoHist]
    /\ codec \in {[NoCodec EXCEPT !.clientId = c, !.apiKey = s, !.step = "input"] :
                     c \in ClientIds, s \in CodecInputs}

\* redactCredential({ clientId, apiKey })
CodecRedact ==
    /\ codec.step = "input"
    /\ codec' = [codec EXCEPT
                    !.redacted = redactCredential([clientId |-> codec.clientId,
                                                  apiKey |-> codec.apiKey]).apiKey,
                    !.step = "redacted"]
    /\ UNCHANGED <<s3, ssm, clock, pc, event, file, ops, res, put, out, err, hist>>

\* apiKey.startsWith('****') on the plain and on the redacted value
CodecTest ==
    /\ codec.step = "redacted"
    /\ codec' = [codec EXCEPT
                    !.wasRedacted = IsRedacted(codec.apiKey),
                    !.isRedacted = IsRedacted(codec.redacted),
                    !.step = "tested"]
    /\ UNCHANGED <<s3, ssm, clock, pc, event, file, ops, res, put, out, err, hist>>

CodecNext == CodecRedact \/ CodecTest

CodecSpec == CodecInit /\ [][CodecNext]_vars

\* ------------------------------------- two documents, successive rounds
\* Both object keys hold a one-entry credentials file for client c1.  When
\* every invocation of a round has returned, the next round of invocations
\* begins on the stores as the round left them.
RaceFiles ==
    {[lastUpdated |-> UploadStamp, credentials |-> <<[clientId |-> "c1", apiKey |-> s]>>] :
        s \in Secrets}

RaceInit ==
    /\ s3 \in {[k \in S3Keys |-> IF k = DocKey THEN Object(StringifyFile(f))
                                            ELSE Object(StringifyFile(g))] :
                  f \in RaceFiles, g \in RaceFiles}
    /\ ssm \in {[n \in ParamNames |-> IF n = ParamName("c1") THEN p1 ELSE NoParameter] :
                    p1 \in InitialParameters("c1")}
    /\ clock = 0
    /\ pc = [r \in Requests |-> "idle"]
    /\ event = [r \in Requests |-> NoEvent]
    /\ file = [r \in Requests |-> NoFile]
    /\ ops = [r \in Requests |-> <<>>]
    /\ res = [r \in Requests |-> <<>>]
    /\ put = [r \in Requests |-> NoPut]
    /\ out = [r \in Requests |-> NoFile]
    /\ err = [r \in Requests |-> ""]
    /\ hist = [r \in Requests |-> NoHist]
    /\ codec = NoCodec

\* two invocations overlapped in time and each had a PutParameter applied
\* for the same clientId
PutsOf(r) ==
    {file[r].credentials[i].clientId :
        i \in {j \in DOMAIN ops[r] : ops[r][j] = "done"
                                      /\ ~IsRedacted(file[r].credentials[j].apiKey)}}
Overlapped(r, q) == r # q /\ r \notin hist[q].prior /\ q \notin hist[r].prior
Raced == \E r, q \in Requests : Overlapped(r, q) /\ PutsOf(r) \cap PutsOf(q) # {}

\* every invocation has returned: the next round of invocations arrives
NextPass ==
    /\ \A r \in Requests : Ended(r)
    /\ \A r \in Requests : hist[r].pass < MaxPass
    /\ pc' = [r \in Requests |-> "idle"]
    /\ event' = [r \in Requests |-> NoEvent]
    /\ file' = [r \in Requests |-> NoFile]
    /\ ops' = [r \in Requests |-> <<>>]
    /\ res' = [r \in Requests |-> <<>>]
    /\ put' = [r \in Requests |-> NoPut]
    /\ out' = [r \in Requests |-> NoFile]
    /\ err' = [r \in Requests |-> ""]
    /\ hist' = [r \in Requests |->
                  [NoHist EXCEPT !.pass = hist[r].pass + 1, !.raced = Raced]]
    /\ UNCHANGED <<s3, ssm, clock, codec>>

RaceNext == Next \/ NextPass

RaceSpec == RaceInit /\ [][RaceNext]_vars

\* ------------------------------------ two documents that share a client
\* The object k1 holds a file with an entry for each client, the object k2
\* a file with one entry for client c2; the parameter store is as in Init.
PairFiles ==
    {[lastUpdated |-> UploadStamp,
      credentials |-> <<[clientId |-> "c1", apiKey |-> a], [clientId |-> "c2", apiKey |-> b]>>] :
        a \in ApiKeys, b \in ApiKeys}
SingleFiles ==
    {[lastUpdated |-> UploadStamp, credentials |-> <<[clientId |-> "c2", apiKey |-> b]>>] :
        b \in ApiKeys}

PairInit ==
    /\ s3 \in {[k \in S3Keys |-> IF k = DocKey THEN Object(StringifyFile(f))
                                            ELSE Object(StringifyFile(g))] :
                  f \in PairFiles, g \in SingleFiles}
    /\ ssm \in {[n \in ParamNames |-> IF n = ParamName("c1") THEN p1 ELSE p2] :
                    p1 \in InitialParameters("c1"), p2 \in InitialParameters("c2")}
    /\ clock = 0
    /\ pc = [r \in Requests |-> "idle"]
    /\ event = [r \in Requests |-> NoEvent]
    /\ file = [r \in Requests |-> NoFile]
    /\ ops = [r \in Requests |-> <<>>]
    /\ res = [r \in Requests |-> <<>>]
    /\ put = [r \in Requests |-> NoPut]
    /\ out = [r \in Requests |-> NoFile]
    /\ err = [r \in Requests |-> ""]
    /\ hist = [r \in Requests |-> NoHist]
    /\ codec = NoCodec

PairSpec == PairInit /\ [][Next]_vars

\* ===================================================================
\* Properties
\* ===================================================================
\* the vocabulary of the properties, stated without the code's operators
Star4 == <<"*", "*", "*", "*">>
HasMarker(v) == Len(v) >= 4 /\ \A k \in 1..4 : v[k] = "*"
LastUpTo4(s) == [k \in 1..(IF Len(s) < 4 THEN Len(s) ELSE 4) |->
                    s[Len(s) - (IF Len(s) < 4 THEN Len(s) ELSE 4) + k]]
MaskOf(s) == Star4 \o LastUpTo4(s)

\* the documents a caller received from / the core wrote for invocation r
DeliveredTo(r) == {hist[r].delivered[k] : k \in 1..Len(hist[r].delivered)}
WrittenBy(r) == {hist[r].written[k] : k \in 1..Len(hist[r].written)}
EntriesOf(text) == Member(text, "credentials")
Succeeded(r) == pc[r] = "done"
InputOf(r) == file[r].credentials
SomePlain(r) == \E i \in 1..Len(InputOf(r)) : ~HasMarker(InputOf(r)[i].apiKey)
AllMasked(r) == \A i \in 1..Len(InputOf(r)) : HasMarker(InputOf(r)[i].apiKey)

\* C1: in every successful request, entry i of the delivered document is the
\* input entry itself when input entry i is plaintext, and is, verbatim, the
\* parameter value that the request read under /pii/{clientId}/credentials
\* of that entry when input entry i is masked.
C1_DeliveredEntries ==
    \A r \in Requests : Succeeded(r) =>
        \A d \in DeliveredTo(r) :
            /\ Len(EntriesOf(d.Body)) = Len(InputOf(r))
            /\ \A i \in 1..Len(InputOf(r)) :
                IF HasMarker(InputOf(r)[i].apiKey)
                THEN \E rd \in hist[r].reads :
                        /\ rd.entry = i
                        /\ rd.name = <<"pii", InputOf(r)[i].clientId, "credentials">>
                        /\ EntriesOf(d.Body)[i] = rd.value
                ELSE EntriesOf(d.Body)[i] =
                        <<"clientId", InputOf(r)[i].clientId, "apiKey", InputOf(r)[i].apiKey>>

\* C1 witness: a request succeeded on a mixed document (a masked entry
\* resolved from the store next to a plaintext entry passed through)
C1_Witness ==
    \E r \in Requests :
        /\ Succeeded(r) /\ DeliveredTo(r) # {}
        /\ SomePlain(r) /\ ~AllMasked(r)
        /\ \E i \in 1..Len(InputOf(r)) : HasMarker(InputOf(r)[i].apiKey)

ApiKeyOf(text) == Member(text, "apiKey")
ClientIdOf(text) == Member(text, "clientId")

\* C2 (as amended): in every request the object store is written at most
\* once and only when some entry of the fetched document is not masked; in
\* a request that completes successfully it is written exactly once if some
\* entry is not masked and not at all otherwise.
C2_WriteIffPlaintextOnSuccess ==
    \A r \in Requests :
        /\ Len(hist[r].written) <= 1
        /\ hist[r].s3Put <= 1
        /\ hist[r].written # <<>> => SomePlain(r)
        /\ hist[r].s3Put > 0 => SomePlain(r)
        /\ Succeeded(r) => (Len(hist[r].written) = 1 <=> SomePlain(r))

\* C2 witness: one request succeeded with a plaintext entry and wrote once,
\* another succeeded on an all-masked document and wrote nothing
C2_Witness ==
    \E r, q \in Requests :
        /\ Succeeded(r) /\ SomePlain(r) /\ Len(hist[r].written) = 1
        /\ Succeeded(q) /\ AllMasked(q) /\ Len(InputOf(q)) > 0 /\ hist[q].written = <<>>

\* C2 (as originally stated): a request, once ended, has written the object
\* store exactly when some entry of its fetched document is not masked.
C2_Original ==
    \A r \in Requests : Ended(r) =>
        /\ Len(hist[r].written) <= 1
        /\ hist[r].written # <<>> <=> SomePlain(r)

\* C3: every document the core writes, or is about to write, to the object
\* store holds only masked values.
C3_WrittenMasked ==
    \A r \in Requests :
        /\ \A w \in WrittenBy(r) :
              \A i \in 1..Len(EntriesOf(w.Body)) : HasMarker(ApiKeyOf(EntriesOf(w.Body)[i]))
        /\ pc[r] = "rewrite" =>
              \A i \in 1..Len(EntriesOf(put[r].Body)) :
                  HasMarker(ApiKeyOf(EntriesOf(put[r].Body)[i]))
        /\ WrittenBy(r) # {} =>
              \A i \in 1..Len(EntriesOf(s3[DocKey].body)) :
                  HasMarker(ApiKeyOf(EntriesOf(s3[DocKey].body)[i]))

\* C3 witness: a document with a short and a long plaintext secret was
\* rewritten
C3_Witness ==
    \E r \in Requests :
        /\ WrittenBy(r) # {}
        /\ \E i, j \in 1..Len(InputOf(r)) :
              /\ ~HasMarker(InputOf(r)[i].apiKey) /\ Len(InputOf(r)[i].apiKey) < 4
              /\ ~HasMarker(InputOf(r)[j].apiKey) /\ Len(InputOf(r)[j].apiKey) > 4

\* C4: starting from a secret store without masked values, no secret-store
\* record ever holds a masked value.
C4_StoreNeverMasked ==
    \A n \in ParamNames : ssm[n].exists => ~HasMarker(ApiKeyOf(ssm[n].value))

\* C4 witness: a request that saw a masked and a plaintext entry has put
\* the plaintext one into the store
C4_Witness ==
    \E r \in Requests :
        /\ hist[r].ssmPutOk >= 1
        /\ \E i \in 1..Len(InputOf(r)) : HasMarker(InputOf(r)[i].apiKey) /\ ops[r][i] = "done"

C6_WrittenIsMaskOfResolved ==
    \A r \in Requests : \A w \in WrittenBy(r) :
        /\ Len(EntriesOf(w.Body)) = Len(res[r])
        /\ \A i \in 1..Len(res[r]) :
              ApiKeyOf(EntriesOf(w.Body)[i]) = MaskOf(res[r][i].apiKey)

\* the credentials list a delivered response carries
DeliveredEntries(r) == EntriesOf(hist[r].delivered[1].Body)
TextOfEntries(cs) == [i \in 1..Len(cs) |-> <<"clientId", cs[i].clientId, "apiKey", cs[i].apiKey>>]
UniqueClientIds(cs) == \A i, j \in 1..Len(cs) : cs[i].clientId = cs[j].clientId => i = j

\* q is the request that follows p, with no overlap and nothing in between
Successive(p, q) ==
    /\ p # q
    /\ hist[p].prior = {}
    /\ hist[q].prior = {p}
    /\ \A x \in Requests \ {p, q} : pc[x] = "idle"

\* C7: round trip.  For a document with unique clientIds whose secrets are
\* all plaintext, two successive non-overlapping successful requests return
\* the same credentials list, the original one; the first puts every entry
\* into the secret store and rewrites the object, the second writes to
\* neither store.
C7_RoundTrip ==
    \A p, q \in Requests :
        (/\ Successive(p, q) /\ Succeeded(p) /\ Succeeded(q)
         /\ Len(InputOf(p)) > 0 /\ UniqueClientIds(InputOf(p))
         /\ \A i \in 1..Len(InputOf(p)) : ~HasMarker(InputOf(p)[i].apiKey))
        => /\ DeliveredEntries(p) = TextOfEntries(InputOf(p))
           /\ DeliveredEntries(q) = DeliveredEntries(p)
           /\ hist[p].ssmPutOk = Len(InputOf(p))
           /\ Len(hist[p].written) = 1
           /\ hist[q].ssmPut = 0 /\ hist[q].ssmPutOk = 0
           /\ hist[q].s3Put = 0 /\ hist[q].written = <<>>

\* C7 witness: the two requests completed on a document of two plaintext
\* entries, one secret shorter and one longer than the revealed suffix
C7_Witness ==
    \E p, q \in Requests :
        /\ Successive(p, q) /\ Succeeded(p) /\ Succeeded(q)
        /\ Len(InputOf(p)) = 2 /\ UniqueClientIds(InputOf(p))
        /\ \A i \in 1..2 : ~HasMarker(InputOf(p)[i].apiKey)
        /\ Len(InputOf(p)[1].apiKey) # Len(InputOf(p)[2].apiKey)

\* the requests that take a step
Movers == {x \in Requests : pc'[x] # pc[x] \/ ops'[x] # ops[x]}

\* C8: idempotence.  A request whose fetched document has only masked
\* entries sends no PutParameter and no PutObject, and none of its steps
\* changes the secret store or the object store.
C8_AllMaskedWritesNothing ==
    /\ [](\A r \in Requests :
             (pc[r] \notin {"idle", "fetch"} /\ AllMasked(r)) =>
                 /\ hist[r].ssmPut = 0 /\ hist[r].ssmPutOk = 0
                 /\ hist[r].s3Put = 0 /\ hist[r].written = <<>>
                 /\ hist[r].ssmGet = Len(InputOf(r)))
    /\ [][\A r \in Requests :
             (pc[r] \notin {"idle", "fetch"} /\ AllMasked(r) /\ Movers = {r}) =>
                 (ssm' = ssm /\ s3' = s3)]_vars

\* C8 witness: a request succeeded on a document of two masked entries
\* whose records exist
C8_Witness ==
    \E r \in Requests :
        /\ Succeeded(r) /\ AllMasked(r) /\ Len(InputOf(r)) = 2
        /\ Cardinality(hist[r].reads) = 2

\* C9: order preservation.  The delivered response and the rewritten
\* document have as many entries as the fetched document, and entry i has
\* the clientId of input entry i.
C9_OrderPreserved ==
    \A r \in Requests :
        /\ \A d \in DeliveredTo(r) :
              /\ Len(EntriesOf(d.Body)) = Len(InputOf(r))
              /\ \A i \in 1..Len(InputOf(r)) :
                    ClientIdOf(EntriesOf(d.Body)[i]) = InputOf(r)[i].clientId
        /\ \A w \in WrittenBy(r) :
              /\ Len(EntriesOf(w.Body)) = Len(InputOf(r))
              /\ \A i \in 1..Len(InputOf(r)) :
                    ClientIdOf(EntriesOf(w.Body)[i]) = InputOf(r)[i].clientId

\* C9 witness: a response was delivered and the object rewritten for a
\* mixed document with two different clientIds
C9_Witness ==
    \E r \in Requests :
        /\ DeliveredTo(r) # {} /\ WrittenBy(r) # {}
        /\ Len(InputOf(r)) = 2
        /\ InputOf(r)[1].clientId # InputOf(r)[2].clientId
        /\ HasMarker(InputOf(r)[1].apiKey) /\ ~HasMarker(InputOf(r)[2].apiKey)

\* C10: no partial response.  The response command is sent only after the
\* fetch succeeded, every per-entry operation succeeded and, when an entry
\* is plaintext, the rewrite succeeded; a request in which a per-entry
\* operation failed or the rewrite failed has ended in failure without
\* sending it.
C10_NoPartialResponse ==
    \A r \in Requests :
        /\ (hist[r].deliver > 0 \/ hist[r].delivered # <<>>) =>
              /\ hist[r].s3Get = 1
              /\ pc[r] \in {"respond", "done", "failed"}
              /\ \A i \in 1..Len(InputOf(r)) : ops[r][i] = "done"
              /\ Len(ops[r]) = Len(InputOf(r))
              /\ SomePlain(r) => Len(hist[r].written) = 1
              /\ err[r] \in {"", "WriteGetObjectResponseError"}
        /\ (\E i \in 1..Len(ops[r]) : ops[r][i] = "failed") =>
              /\ pc[r] = "failed"
              /\ hist[r].deliver = 0 /\ hist[r].delivered = <<>>
        /\ (pc[r] = "failed" /\ err[r] # "WriteGetObjectResponseError") =>
              hist[r].deliver = 0 /\ hist[r].delivered = <<>>

\* C10 witness: a request failed after one of its two per-entry operations
\* had succeeded and the other failed
C10_Witness ==
    \E r \in Requests :
        /\ pc[r] = "failed"
        /\ \E i, j \in 1..Len(ops[r]) : ops[r][i] = "failed" /\ ops[r][j] = "done"


NumMasked(r) == Cardinality({i \in 1..Len(InputOf(r)) : HasMarker(InputOf(r)[i].apiKey)})
NumPlain(r) == Cardinality({i \in 1..Len(InputOf(r)) : ~HasMarker(InputOf(r)[i].apiKey)})
FailedOps(r) == {i \in 1..Len(ops[r]) : ops[r][i] = "failed"}

Quiet(h) ==
    /\ h.ssmGet = 0 /\ h.reads = {} /\ h.missing = {}
    /\ h.ssmPut = 0 /\ h.ssmPutOk = 0
    /\ h.s3Put = 0 /\ h.written = <<>>
    /\ h.deliver = 0 /\ h.delivered = <<>>

\* C12: a request that fails in Resolve (invalid event, no key in the URL)
\* or in Fetch (object missing, no body, invalid JSON, schema mismatch)
\* changes neither store and sends no secret-store command, no PutObject
\* and no response, then or later; failing in Resolve it has not sent the
\* GetObject either.
C12_EarlyFailureChangesNothing ==
    [][\A r \in Requests :
          /\ (pc[r] \in {"idle", "fetch"} /\ pc'[r] = "failed") =>
                /\ s3' = s3 /\ ssm' = ssm
                /\ Quiet(hist'[r]) /\ ops'[r] = <<>>
                /\ pc[r] = "idle" => hist'[r].s3Get = 0
                /\ pc[r] = "fetch" => hist'[r].s3Get = 1
          /\ (pc[r] = "failed" /\ Quiet(hist[r]) /\ ops[r] = <<>>) =>
                /\ Quiet(hist'[r]) /\ pc'[r] = "failed"
                /\ (\A q \in Requests \ {r} : pc'[q] = pc[q] /\ ops'[q] = ops[q]) =>
                      (s3' = s3 /\ ssm' = ssm)]_vars

\* C12 witness: one request failed for want of a key, another on a body
\* that is not JSON
C12_Witness ==
    \E r, q \in Requests :
        /\ pc[r] = "failed" /\ err[r] = "Unable to parse object key from URL"
        /\ hist[r].s3Get = 0
        /\ pc[q] = "failed" /\ err[q] = "SyntaxError" /\ hist[q].s3Get = 1

\* C13: barrier.  The PutObject is sent only when every per-entry operation
\* of the request has completed successfully; none is pending or failed
\* while the rewrite is in flight or afterwards.
C13_RewriteAfterBarrier ==
    \A r \in Requests : (hist[r].s3Put > 0 \/ pc[r] = "rewrite") =>
        /\ Len(ops[r]) = Len(InputOf(r))
        /\ \A i \in 1..Len(ops[r]) : ops[r][i] = "done"

\* C13 witness: the rewrite of a two-entry mixed document is in flight
C13_Witness ==
    \E r \in Requests :
        /\ pc[r] = "rewrite" /\ Len(ops[r]) = 2
        /\ NumMasked(r) = 1 /\ NumPlain(r) = 1


\* C14: in a successful request the GetParameter commands sent and answered
\* number the masked input entries, the PutParameter commands sent and
\* applied number the plaintext input entries, and exactly one PutObject is
\* sent and applied if some input entry is plaintext, none otherwise.
C14_OperationCounts ==
    \A r \in Requests : Succeeded(r) =>
        /\ hist[r].ssmGet = NumMasked(r)
        /\ Cardinality(hist[r].reads) = NumMasked(r)
        /\ hist[r].ssmPut = NumPlain(r)
        /\ hist[r].ssmPutOk = NumPlain(r)
        /\ hist[r].s3Put = (IF NumPlain(r) >= 1 THEN 1 ELSE 0)
        /\ Len(hist[r].written) = (IF NumPlain(r) >= 1 THEN 1 ELSE 0)

\* C14 witness: a request on one masked entry followed by one plaintext
\* entry succeeded with one read, one write and one PutObject
C14_Witness ==
    \E r \in Requests :
        /\ Succeeded(r) /\ Len(InputOf(r)) = 2
        /\ HasMarker(InputOf(r)[1].apiKey) /\ ~HasMarker(InputOf(r)[2].apiKey)
        /\ Cardinality(hist[r].reads) = 1 /\ hist[r].ssmPutOk = 1
        /\ Len(hist[r].written) = 1

Fetched(r) == pc[r] \notin {"idle", "fetch"} /\ file[r] # NoFile
LastUpdatedOf(text) == Member(text, "lastUpdated")

\* C15: a request that fetched a document with an empty credentials list
\* sends no secret-store command and no PutObject, and a response it
\* delivers is the fetched document: the same lastUpdated, an empty list.
C15_EmptyDocument ==
    \A r \in Requests : (Fetched(r) /\ InputOf(r) = <<>>) =>
        /\ hist[r].ssmGet = 0 /\ hist[r].reads = {} /\ hist[r].missing = {}
        /\ hist[r].ssmPut = 0 /\ hist[r].ssmPutOk = 0
        /\ hist[r].s3Put = 0 /\ hist[r].written = <<>>
        /\ \A d \in DeliveredTo(r) :
              d.Body = <<"lastUpdated", file[r].lastUpdated, "credentials", <<>>>>

\* C15 witness: a request on an empty document succeeded
C15_Witness ==
    \E r \in Requests :
        /\ Succeeded(r) /\ Fetched(r) /\ InputOf(r) = <<>>
        /\ DeliveredTo(r) # {}

C17_MaskFormat ==
    codec.step \in {"redacted", "tested"} =>
        /\ codec.redacted = MaskOf(codec.apiKey)
        /\ Len(codec.redacted) = 4 + (IF Len(codec.apiKey) < 4 THEN Len(codec.apiKey) ELSE 4)
        /\ \A k \in 1..4 : codec.redacted[k] = "*"
        /\ \A k \in 5..Len(codec.redacted) :
              codec.redacted[k] = codec.apiKey[Len(codec.apiKey) - Len(codec.redacted) + k]

\* C17 witness: an apiKey longer than four characters, its first character
\* unlike its last, has been redacted
C17_Witness ==
    /\ codec.step = "redacted"
    /\ Len(codec.apiKey) = MaxKeyLen
    /\ codec.apiKey[1] # codec.apiKey[MaxKeyLen]
    /\ codec.clientId = "c2"

\* C18: the startsWith('****') test holds of every redacted apiKey, the
\* redaction of the empty apiKey included, and it holds of a value exactly
\* when the value begins with four stars.
C18_MaskIsMasked ==
    codec.step = "tested" =>
        /\ codec.isRedacted
        /\ codec.isRedacted <=> HasMarker(codec.redacted)
        /\ codec.wasRedacted <=> HasMarker(codec.apiKey)

\* C18 witness: the empty apiKey has been redacted and tested
C18_Witness ==
    /\ codec.step = "tested"
    /\ codec.apiKey = <<>>
    /\ codec.isRedacted /\ ~codec.wasRedacted

\* the parameter a client's credential is kept under, and its JSON text
NameFor(clientId) == <<"pii", clientId, "credentials">>
TextFor(entry) == <<"clientId", entry.clientId, "apiKey", entry.apiKey>>
Completes(r, i) ==
    /\ i \in DOMAIN ops[r] /\ ops[r][i] = "pending"
    /\ i \in DOMAIN ops'[r] /\ ops'[r][i] = "done"
Settles(r, i) ==
    /\ i \in DOMAIN ops[r] /\ ops[r][i] = "pending"
    /\ i \in DOMAIN ops'[r] /\ ops'[r][i] # "pending"

\* C19: a request sends one PutParameter per plaintext entry it fetched,
\* whatever the store holds; when the put of a plaintext entry completes,
\* the parameter /pii/{clientId}/credentials exists with the JSON text of
\* that entry as its value, whatever it was before, and every other
\* parameter is as it was.
C19_PlaintextPut ==
    /\ [](\A r \in Requests : Fetched(r) => hist[r].ssmPut = NumPlain(r))
    /\ [][\A r \in Requests : \A i \in 1..MaxEntries :
            (Completes(r, i) /\ ~HasMarker(InputOf(r)[i].apiKey)) =>
                /\ NameFor(InputOf(r)[i].clientId) \in DOMAIN ssm'
                /\ ssm'[NameFor(InputOf(r)[i].clientId)] =
                      [exists |-> TRUE, value |-> TextFor(InputOf(r)[i])]
                /\ \A n \in DOMAIN ssm \ {NameFor(InputOf(r)[i].clientId)} :
                      ssm'[n] = ssm[n]
                /\ hist'[r].ssmPutOk = hist[r].ssmPutOk + 1]_vars

\* C19 witness: each of two requests has completed the put of a plaintext
\* entry of client c1, so that the later put overwrote a record
C19_Witness ==
    \A r \in Requests : \E i \in DOMAIN ops[r] :
        /\ ops[r][i] = "done"
        /\ ~HasMarker(InputOf(r)[i].apiKey)
        /\ InputOf(r)[i].clientId = "c1"
        /\ ssm[NameFor("c1")] = [exists |-> TRUE, value |-> TextFor(InputOf(r)[i])]

\* C20: for a masked entry the request sends a GetParameter and no
\* PutParameter, and the step that settles the entry, successfully or not,
\* leaves every parameter of the store as it was.
C20_MaskedNeverMutates ==
    /\ [](\A r \in Requests : Fetched(r) =>
            /\ hist[r].ssmGet = NumMasked(r)
            /\ hist[r].ssmPut + hist[r].ssmGet = Len(InputOf(r))
            /\ hist[r].ssmPutOk <= NumPlain(r))
    /\ [][\A r \in Requests : \A i \in 1..MaxEntries :
            (Settles(r, i) /\ HasMarker(InputOf(r)[i].apiKey)) =>
                /\ ssm' = ssm
                /\ hist'[r].ssmPut = hist[r].ssmPut
                /\ hist'[r].ssmPutOk = hist[r].ssmPutOk]_vars

\* C20 witness: a masked entry of a client with a record has been resolved
\* and the record is the one that was read
C20_Witness ==
    \E r \in Requests : \E rd \in hist[r].reads :
        /\ ops[r][rd.entry] = "done"
        /\ HasMarker(InputOf(r)[rd.entry].apiKey)
        /\ ssm[rd.name] = [exists |-> TRUE, value |-> rd.value]
        /\ hist[r].ssmPut = 0


\* the request URL's path without its leading slash
PathKey(r) == [k \in 1..(Len(event[r].pathname) - 1) |-> event[r].pathname[k + 1]]

\* C21: every PutObject a request applies names the configured bucket and
\* the key that is the request URL's path without its leading slash, the
\* key the document was fetched from; an object changes only in the step
\* in which the rewrite of a request on that very key completes.
C21_RewriteSameKey ==
    /\ [](\A r \in Requests : \A w \in WrittenBy(r) :
            /\ w.Bucket = "test-bucket"
            /\ w.Key = PathKey(r)
            /\ hist[r].s3Get = 1
            /\ file[r] # NoFile)
    /\ [][\A k \in S3Keys : s3'[k] # s3[k] =>
            \E r \in Requests :
                /\ pc[r] = "rewrite" /\ pc'[r] = "respond"
                /\ k = PathKey(r)
                /\ s3'[k] = [exists |-> TRUE, hasBody |-> TRUE, body |-> put[r].Body]]_vars

\* C21 witness: a request on /k2 rewrote the object k2 while the object
\* k1 still holds a plaintext entry
C21_Witness ==
    \E r \in Requests : \E w \in WrittenBy(r) :
        /\ event[r].pathname = <<"/", "k", "2">>
        /\ w.Key = <<"k", "2">>
        /\ s3[<<"k", "2">>].body = w.Body
        /\ IsFileText(s3[<<"k", "1">>].body)
        /\ ~HasMarker(ParseFile(s3[<<"k", "1">>].body).credentials[1].apiKey)

\* the JSON text of a credentials file
TextOfFile(f) ==
    <<"lastUpdated", f.lastUpdated,
      "credentials", [i \in 1..Len(f.credentials) |->
                        <<"clientId", f.credentials[i].clientId,
                          "apiKey", f.credentials[i].apiKey>>]>>

\* C22: a successful request has sent one WriteGetObjectResponse and had
\* one accepted; it carries the route and the token of the request's own
\* event, and its body is the JSON text of the document reconciliation
\* returned: the values the per-entry operations resolved to, in order.
C22_DeliveredOnce ==
    \A r \in Requests : Succeeded(r) =>
        /\ hist[r].deliver = 1
        /\ Len(hist[r].delivered) = 1
        /\ hist[r].delivered[1].RequestRoute = event[r].outputRoute
        /\ hist[r].delivered[1].RequestToken = event[r].outputToken
        /\ hist[r].delivered[1].RequestRoute = <<"route", r>>
        /\ hist[r].delivered[1].RequestToken = <<"token", r>>
        /\ hist[r].delivered[1].Body = TextOfFile(out[r])
        /\ out[r].credentials = res[r]
        /\ Len(res[r]) = Len(InputOf(r))

\* C22 witness: both requests succeeded, each answered on its own route,
\* one of them with a two-entry document
C22_Witness ==
    /\ \A r \in Requests : Succeeded(r) /\ hist[r].delivered[1].RequestRoute = <<"route", r>>
    /\ \E r \in Requests : Len(out[r].credentials) = 2


\* p put secrets into the store and then failed at the rewrite or at the
\* response; q is the next request, on the same object, and succeeded
FailedThenRetried(p, q) ==
    /\ Successive(p, q)
    /\ pc[p] = "failed"
    /\ err[p] \in {"S3PutError", "WriteGetObjectResponseError"}
    /\ hist[p].ssmPutOk >= 1
    /\ Succeeded(q)
    /\ event[q].pathname = event[p].pathname

\* the object under the key of request q holds masks of the entries that
\* were plaintext for p, the store holds those entries, and q's response
\* carries them
Corrected(p, q) ==
    LET atRest == ParseFile(s3[PathKey(q)].body).credentials
    IN  /\ Len(atRest) = Len(InputOf(p))
        /\ \A i \in 1..Len(atRest) : HasMarker(atRest[i].apiKey)
        /\ \A i \in 1..Len(InputOf(p)) : ~HasMarker(InputOf(p)[i].apiKey) =>
              /\ atRest[i].apiKey = MaskOf(InputOf(p)[i].apiKey)
              /\ ssm[NameFor(InputOf(p)[i].clientId)] =
                    [exists |-> TRUE, value |-> TextFor(InputOf(p)[i])]
              /\ DeliveredEntries(q)[i] = TextFor(InputOf(p)[i])

\* C23 as stated: after a request that put secrets and then failed at the
\* rewrite or the response, the next successful request on the document
\* leaves every entry masked, the store holding every secret, and answers
\* with the original secrets.
C23_Original ==
    \A p, q \in Requests : FailedThenRetried(p, q) => Corrected(p, q)

\* C23: for a document whose clientIds are unique: after a request that put
\* secrets and then failed at the rewrite or the response, the next
\* successful request on the document, with no other request in between,
\* leaves every entry of the object masked, the store holding every secret
\* that was plaintext, and answers with those secrets.
C23_SelfCorrection ==
    \A p, q \in Requests :
        (FailedThenRetried(p, q) /\ UniqueClientIds(InputOf(p))) => Corrected(p, q)

\* C23 witness: the rewrite of a request on two plaintext entries of
\* different clients failed, and the next request succeeded
C23_Witness ==
    \E p, q \in Requests :
        /\ FailedThenRetried(p, q) /\ err[p] = "S3PutError"
        /\ Len(InputOf(p)) = 2 /\ UniqueClientIds(InputOf(p))
        /\ \A i \in 1..2 : ~HasMarker(InputOf(p)[i].apiKey)
        /\ Len(hist[q].written) = 1


\* the credentials of the file at rest under object key k
AtRest(k) == ParseFile(s3[k].body).credentials

\* every masked entry at rest is the mask of the secret the store holds
\* for its clientId
StoresAgree ==
    \A k \in S3Keys : IsFileText(s3[k].body) =>
        \A i \in 1..Len(AtRest(k)) : HasMarker(AtRest(k)[i].apiKey) =>
            /\ ssm[NameFor(AtRest(k)[i].clientId)].exists
            /\ AtRest(k)[i].apiKey =
                  MaskOf(ApiKeyOf(ssm[NameFor(AtRest(k)[i].clientId)].value))

\* the requests of this round follow a round in which overlapping requests
\* put secrets for one clientId; they succeeded, one on each document
HealingPassDone ==
    /\ \A r \in Requests : hist[r].pass = 1 /\ hist[r].raced /\ Succeeded(r)
    /\ {PathKey(r) : r \in Requests} = S3Keys

\* C24: self-healing after a race.  When the requests that raced on a
\* clientId have all completed and one further request has succeeded on each
\* document, every masked entry at rest is the mask of the secret the store
\* holds for its clientId.
C24_SelfHealing == HealingPassDone => StoresAgree


\* request r runs on its own: no other request has begun
Alone(r) == \A q \in Requests \ {r} : pc[q] = "idle"

\* C25: per-entry independence.  The step that settles one entry of a
\* request changes the result of no other entry and no parameter other than
\* that of the entry's clientId.  Hence for a single request on a document
\* with unique clientIds, whatever the order in which the operations
\* completed, the resolved document and the store are the same: a plaintext
\* entry resolves to itself and is the record of its clientId, a masked
\* entry resolves to the record of its clientId.
C25_EntriesIndependent ==
    /\ [](\A r \in Requests :
            (Alone(r) /\ pc[r] \in {"rewrite", "respond", "done"}
                      /\ UniqueClientIds(InputOf(r))) =>
                \A i \in 1..Len(InputOf(r)) :
                    /\ NameFor(InputOf(r)[i].clientId) \in DOMAIN ssm
                    /\ ssm[NameFor(InputOf(r)[i].clientId)].exists
                    /\ <<"clientId", out[r].credentials[i].clientId,
                         "apiKey", out[r].credentials[i].apiKey>>
                          = ssm[NameFor(InputOf(r)[i].clientId)].value
                    /\ ~HasMarker(InputOf(r)[i].apiKey) =>
                          out[r].credentials[i] = InputOf(r)[i])
    /\ [][\A r \in Requests : \A i \in 1..MaxEntries : Settles(r, i) =>
            /\ \A j \in DOMAIN ops[r] \ {i} :
                  res'[r][j] = res[r][j] /\ ops'[r][j] = ops[r][j]
            /\ \A n \in DOMAIN ssm \ {NameFor(InputOf(r)[i].clientId)} :
                  ssm'[n] = ssm[n]]_vars

\* C25 witness: a single request resolved a masked entry of one client and
\* put a plaintext entry of another
C25_Witness ==
    \E r \in Requests :
        /\ Alone(r) /\ pc[r] = "done"
        /\ Len(InputOf(r)) = 2 /\ UniqueClientIds(InputOf(r))
        /\ HasMarker(InputOf(r)[1].apiKey) /\ ~HasMarker(InputOf(r)[2].apiKey)


\* the errors each operation can raise
GetObjectErrors == {"S3GetError", "NoSuchKey", "No body in S3 response", "SyntaxError", "ZodError"}
GetParameterErrors == {"SsmGetError", "ParameterNotFound", "ZodError"}

\* C26: the error a request fails with is the error raised by the operation
\* that failed, unchanged: an error of the GetObject when the fetch fails,
\* of the GetParameter or PutParameter of the entry whose operation was the
\* first to fail, of the PutObject when the rewrite fails, of the
\* WriteGetObjectResponse when the delivery fails; it is never replaced
\* afterwards.
C26_ErrorsVerbatim ==
    [][\A r \in Requests :
          /\ (pc[r] = "fetch" /\ pc'[r] = "failed") => err'[r] \in GetObjectErrors
          /\ (pc[r] = "reconcile" /\ pc'[r] = "failed") =>
                \E i \in 1..MaxEntries :
                    /\ Settles(r, i) /\ ops'[r][i] = "failed"
                    /\ IF HasMarker(InputOf(r)[i].apiKey)
                       THEN /\ err'[r] \in GetParameterErrors
                            /\ err'[r] = "ParameterNotFound" <=>
                                  /\ i \in hist'[r].missing
                                  /\ ~ssm[NameFor(InputOf(r)[i].clientId)].exists
                       ELSE err'[r] = "SsmPutError"
          /\ (pc[r] = "rewrite" /\ pc'[r] = "failed") => err'[r] = "S3PutError"
          /\ (pc[r] = "respond" /\ pc'[r] = "failed") =>
                err'[r] = "WriteGetObjectResponseError"
          /\ pc'[r] # "failed" => err'[r] = ""
          /\ pc[r] = "failed" => (pc'[r] = "failed" /\ err'[r] = err[r])]_vars

\* C26 witness: one request failed with the error of the PutObject, the
\* other with the error of a PutParameter
C26_Witness ==
    \E r, q \in Requests :
        /\ pc[r] = "failed" /\ err[r] = "S3PutError"
        /\ pc[q] = "failed" /\ err[q] = "SsmPutError"

\* C27: single attempt.  A request sends at most one GetObject, exactly one
\* secret-store command per fetched entry, at most one PutObject and at
\* most one WriteGetObjectResponse; an operation that has settled never
\* runs again, and a request that has failed sends nothing further.
C27_SingleAttempt ==
    /\ [](\A r \in Requests :
            /\ hist[r].s3Get <= 1
            /\ hist[r].ssmGet + hist[r].ssmPut = Len(InputOf(r))
            /\ Cardinality(hist[r].reads) + Cardinality(hist[r].missing) <= hist[r].ssmGet
            /\ hist[r].ssmPutOk <= hist[r].ssmPut
            /\ hist[r].s3Put <= 1 /\ Len(hist[r].written) <= hist[r].s3Put
            /\ hist[r].deliver <= 1 /\ Len(hist[r].delivered) <= hist[r].deliver)
    /\ [][\A r \in Requests :
            /\ \A i \in DOMAIN ops[r] : ops[r][i] # "pending" =>
                  (i \in DOMAIN ops'[r] /\ ops'[r][i] = ops[r][i])
            /\ pc[r] = "failed" =>
                  /\ hist'[r].s3Get = hist[r].s3Get
                  /\ hist'[r].ssmGet = hist[r].ssmGet
                  /\ hist'[r].ssmPut = hist[r].ssmPut
                  /\ hist'[r].s3Put = hist[r].s3Put
                  /\ hist'[r].deliver = hist[r].deliver
            /\ pc[r] # "idle" => event'[r] = event[r]
            /\ pc[r] \notin {"idle", "fetch"} => file'[r] = file[r]]_vars

\* C27 witness: the PutObject of a request failed after two entries had
\* been put; the request has ended with one command of each kind sent
C27_Witness ==
    \E r \in Requests :
        /\ pc[r] = "failed" /\ err[r] = "S3PutError"
        /\ hist[r].s3Get = 1 /\ hist[r].ssmPutOk = 2
        /\ hist[r].s3Put = 1 /\ hist[r].written = <<>> /\ hist[r].deliver = 0

\* C28: when the WriteGetObjectResponse fails the request fails and the
\* step changes neither store: for a request on its own, the object still
\* is the masked document the request wrote and each secret it put still
\* is the record of its clientId.
C28_NoRollback ==
    /\ [][\A r \in Requests : (pc[r] = "respond" /\ pc'[r] = "failed") =>
            /\ s3' = s3 /\ ssm' = ssm
            /\ err'[r] = "WriteGetObjectResponseError"
            /\ hist'[r] = hist[r]]_vars
    /\ [](\A r \in Requests :
            (Alone(r) /\ pc[r] = "failed" /\ err[r] = "WriteGetObjectResponseError") =>
                /\ \A w \in WrittenBy(r) :
                      /\ s3[PathKey(r)] = [exists |-> TRUE, hasBody |-> TRUE, body |-> w.Body]
                      /\ \A i \in 1..Len(EntriesOf(w.Body)) :
                            HasMarker(ApiKeyOf(EntriesOf(w.Body)[i]))
                /\ SomePlain(r) => WrittenBy(r) # {}
                /\ \A i \in 1..Len(InputOf(r)) : ~HasMarker(InputOf(r)[i].apiKey) =>
                      \E j \in 1..Len(InputOf(r)) :
                          /\ InputOf(r)[j].clientId = InputOf(r)[i].clientId
                          /\ ssm[NameFor(InputOf(r)[i].clientId)] =
                                [exists |-> TRUE, value |-> TextFor(InputOf(r)[j])])

\* C28 witness: a request put a secret, rewrote the object, and failed at
\* the response
C28_Witness ==
    \E r \in Requests :
        /\ Alone(r) /\ pc[r] = "failed" /\ err[r] = "WriteGetObjectResponseError"
        /\ hist[r].ssmPutOk >= 1 /\ Len(hist[r].written) = 1
        /\ hist[r].delivered = <<>>


\* the texts of the secrets request r has put for clientId c
PutTexts(r, c) ==
    {TextFor(InputOf(r)[i]) :
        i \in {j \in DOMAIN ops[r] : /\ ops[r][j] = "done"
                                     /\ ~HasMarker(InputOf(r)[j].apiKey)
                                     /\ InputOf(r)[j].clientId = c}}

\* two requests overlapped and have ended, each having put a secret for
\* clientId c, the two secrets different
RaceOver(c) ==
    /\ \A r \in Requests : pc[r] \in {"done", "failed"} /\ hist[r].pass = 0
    /\ \E r, q \in Requests :
        /\ r # q /\ r \notin hist[q].prior /\ q \notin hist[r].prior
        /\ PutTexts(r, c) # {} /\ PutTexts(q, c) # {}
        /\ PutTexts(r, c) # PutTexts(q, c)

\* C29: last write wins.  A parameter changes only in the step that
\* completes a PutParameter for its clientId, and then takes the value of
\* that put whatever it held: no put is refused because a record exists and
\* none is merged with it.  So when requests that put different secrets for
\* one clientId have all ended, the record is the value of the put applied
\* last, one of the values written.
C29_LastWriteWins ==
    /\ [][/\ \A r \in Requests : \A i \in 1..MaxEntries :
               (Completes(r, i) /\ ~HasMarker(InputOf(r)[i].apiKey)) =>
                   /\ ssm'[NameFor(InputOf(r)[i].clientId)].exists
                   /\ ssm'[NameFor(InputOf(r)[i].clientId)].value = TextFor(InputOf(r)[i])
          /\ \A c \in ClientIds : ssm'[NameFor(c)] # ssm[NameFor(c)] =>
               \E r \in Requests : \E i \in 1..MaxEntries :
                   /\ Completes(r, i) /\ ~HasMarker(InputOf(r)[i].apiKey)
                   /\ InputOf(r)[i].clientId = c]_vars
    /\ [](\A c \in ClientIds : RaceOver(c) =>
            /\ ssm[NameFor(c)].exists
            /\ \E r \in Requests : ssm[NameFor(c)].value \in PutTexts(r, c))

\* C29 witness: two overlapping requests put different secrets for client
\* c1, and both have succeeded
C29_Witness ==
    /\ RaceOver("c1")
    /\ \A r \in Requests : hist[r].ssmPutOk = 1 /\ Succeeded(r)


\* C30: marker collision.  An entry whose apiKey begins with four stars is
\* handled as masked whatever else it contains: the request sends no
\* PutParameter for it and the step that settles it leaves the store as it
\* was; it resolves to the record read under its clientId, or fails the
\* operation when there is no record; and a document of such entries alone
\* is never rewritten.
C30_MarkerCollision ==
    /\ [](\A r \in Requests : Fetched(r) =>
            /\ hist[r].ssmPut = NumPlain(r)
            /\ hist[r].ssmPutOk <= NumPlain(r)
            /\ AllMasked(r) => (hist[r].s3Put = 0 /\ hist[r].written = <<>>)
            /\ \A i \in 1..Len(InputOf(r)) :
                  (HasMarker(InputOf(r)[i].apiKey) /\ ops[r][i] = "done") =>
                      \E rd \in hist[r].reads :
                          /\ rd.entry = i
                          /\ rd.name = NameFor(InputOf(r)[i].clientId)
                          /\ <<"clientId", res[r][i].clientId, "apiKey", res[r][i].apiKey>>
                                = rd.value)
    /\ [][\A r \in Requests : \A i \in 1..MaxEntries :
            (Settles(r, i) /\ HasMarker(InputOf(r)[i].apiKey)) =>
                /\ ssm' = ssm
                /\ ~ssm[NameFor(InputOf(r)[i].clientId)].exists => ops'[r][i] = "failed"
                /\ ops'[r][i] = "done" =>
                      /\ ssm[NameFor(InputOf(r)[i].clientId)].exists
                      /\ <<"clientId", res'[r][i].clientId, "apiKey", res'[r][i].apiKey>>
                            = ssm[NameFor(InputOf(r)[i].clientId)].value]_vars

\* C30 witness: a request on the single entry '****a' succeeded without
\* rewrite; it answered with the secret 'abcde' that the store held and
\* the store does not hold '****a'
C30_Witness ==
    \E r \in Requests :
        /\ Succeeded(r) /\ Len(InputOf(r)) = 1
        /\ InputOf(r)[1].apiKey = <<"*", "*", "*", "*", "a">>
        /\ ApiKeyOf(DeliveredEntries(r)[1]) = <<"a", "b", "c", "d", "e">>
        /\ hist[r].s3Put = 0 /\ hist[r].ssmPut = 0
        /\ ApiKeyOf(ssm[NameFor(InputOf(r)[1].clientId)].value) = <<"a", "b", "c", "d", "e">>


\* C31: in a rewrite of a mixed document every entry that was masked in
\* the fetched document is written with the apiKey it had, and every
\* plaintext entry is written as its mask.
C31_MaskedWrittenUnchanged ==
    \A r \in Requests : \A w \in WrittenBy(r) :
        /\ Len(EntriesOf(w.Body)) = Len(InputOf(r))
        /\ \A i \in 1..Len(InputOf(r)) :
              ApiKeyOf(EntriesOf(w.Body)[i]) =
                  IF HasMarker(InputOf(r)[i].apiKey)
                  THEN InputOf(r)[i].apiKey
                  ELSE MaskOf(InputOf(r)[i].apiKey)


\* C32: nothing is deleted.  No step removes a parameter that exists, so
\* the set of clientIds with a record never shrinks, and no step removes an
\* object or its body.
C32_NothingDeleted ==
    [][/\ \A c \in ClientIds :
            (NameFor(c) \in DOMAIN ssm /\ ssm[NameFor(c)].exists) =>
                (NameFor(c) \in DOMAIN ssm' /\ ssm'[NameFor(c)].exists)
       /\ \A k \in S3Keys : s3[k].exists => s3'[k].exists
       /\ \A k \in S3Keys : s3[k].hasBody => s3'[k].hasBody
       /\ DOMAIN ssm' = DOMAIN ssm /\ DOMAIN s3' = DOMAIN s3]_vars

\* C32 witness: a request put one secret and failed on its other put;
\* every client has a record and the object is still there
C32_Witness ==
    \E r \in Requests :
        /\ pc[r] = "failed" /\ err[r] = "SsmPutError"
        /\ hist[r].ssmPutOk = 1 /\ Len(InputOf(r)) = 2
        /\ \A c \in ClientIds : ssm[NameFor(c)].exists
        /\ s3[PathKey(r)].exists


\* C33: rewrite precedes response.  A request whose fetched document has a
\* plaintext entry sends its WriteGetObjectResponse only after its
\* PutObject has been applied: while the PutObject is in flight no response
\* has been sent, and the step that sends the response is the one in which
\* the PutObject completes.
C33_RewriteBeforeResponse ==
    /\ [](\A r \in Requests : (Fetched(r) /\ SomePlain(r)) =>
            /\ (hist[r].deliver > 0 \/ hist[r].delivered # <<>>) =>
                  /\ Len(hist[r].written) = 1
                  /\ \A i \in 1..Len(EntriesOf(hist[r].written[1].Body)) :
                        HasMarker(ApiKeyOf(EntriesOf(hist[r].written[1].Body)[i]))
            /\ pc[r] = "rewrite" => (hist[r].deliver = 0 /\ hist[r].written = <<>>))
    /\ [][\A r \in Requests :
            (Fetched(r) /\ SomePlain(r) /\ hist[r].deliver = 0 /\ hist'[r].deliver = 1) =>
                /\ pc[r] = "rewrite"
                /\ hist[r].written = <<>> /\ Len(hist'[r].written) = 1
                /\ s3'[PathKey(r)].body = hist'[r].written[1].Body]_vars

\* C33 witness: a response carrying a plaintext secret has been delivered
\* by a request that rewrote the object
C33_Witness ==
    \E r \in Requests :
        /\ Succeeded(r) /\ SomePlain(r)
        /\ Len(hist[r].written) = 1 /\ Len(hist[r].delivered) = 1
        /\ \E i \in 1..Len(DeliveredEntries(r)) : ~HasMarker(ApiKeyOf(DeliveredEntries(r)[i]))

\* the request failed on an operation of the Promise.all batch
FailedInBatch(r) == pc[r] = "failed" /\ FailedOps(r) # {}

\* C34: all-or-nothing covers the rewrite and the response only.  Every
\* per-entry operation is sent before any completes; the rejection of one
\* leaves the others in flight; a PutParameter that completes after the
\* request has failed is applied all the same; and the request that failed
\* in the batch writes no object and sends no response.
C34_PutsOutliveFailure ==
    /\ [](\A r \in Requests :
            /\ (Fetched(r) /\ \A i \in DOMAIN ops[r] : ops[r][i] = "pending") =>
                  /\ hist[r].ssmGet + hist[r].ssmPut = Len(InputOf(r))
                  /\ hist[r].ssmPutOk = 0 /\ hist[r].reads = {}
            /\ FailedInBatch(r) =>
                  /\ hist[r].s3Put = 0 /\ hist[r].written = <<>>
                  /\ hist[r].deliver = 0 /\ hist[r].delivered = <<>>
            /\ hist[r].late <= hist[r].ssmPutOk)
    /\ [][\A r \in Requests : \A i \in 1..MaxEntries :
            /\ (Settles(r, i) /\ ops'[r][i] = "failed") =>
                  \A j \in DOMAIN ops[r] \ {i} : ops'[r][j] = ops[r][j]
            /\ (pc[r] = "failed" /\ Completes(r, i)
                                 /\ ~HasMarker(InputOf(r)[i].apiKey)) =>
                  /\ ssm'[NameFor(InputOf(r)[i].clientId)] =
                        [exists |-> TRUE, value |-> TextFor(InputOf(r)[i])]
                  /\ hist'[r].late = hist[r].late + 1
                  /\ pc'[r] = "failed"]_vars

\* C34 witness: the lookup of a masked entry found no record, the request
\* failed, and the put of the other entry was applied afterwards, creating
\* a record
C34_Witness ==
    \E r \in Requests :
        /\ pc[r] = "failed" /\ err[r] = "ParameterNotFound"
        /\ hist[r].late = 1 /\ hist[r].ssmPutOk = 1
        /\ \E i \in DOMAIN ops[r] :
              /\ ops[r][i] = "done" /\ ~HasMarker(InputOf(r)[i].apiKey)
              /\ ssm[NameFor(InputOf(r)[i].clientId)] =
                    [exists |-> TRUE, value |-> TextFor(InputOf(r)[i])]
        /\ hist[r].written = <<>> /\ hist[r].delivered = <<>>


\* no request overlaps request r: every other request has not begun or had
\* ended when r began
NotOverlapped(r) ==
    \A q \in Requests \ {r} : pc[q] = "idle" \/ q \in hist[r].prior

\* in the step the response of request r is accepted; every entry of the
\* response is the record the store then holds for the entry's clientId
Completing(r) == pc[r] = "respond" /\ pc'[r] = "done"
AgreesWithStore(r) ==
    /\ Len(hist'[r].delivered) = 1
    /\ Len(EntriesOf(hist'[r].delivered[1].Body)) = Len(InputOf(r))
    /\ \A i \in 1..Len(InputOf(r)) :
          /\ ssm'[NameFor(InputOf(r)[i].clientId)].exists
          /\ EntriesOf(hist'[r].delivered[1].Body)[i] =
                ssm'[NameFor(InputOf(r)[i].clientId)].value

\* every operation of request q settled before q ended
SettledInTime(q) ==
    hist[q].late = 0 /\ \A i \in DOMAIN ops[q] : ops[q][i] # "pending"

C36_OneStamp ==
    \A r \in Requests : \A w \in WrittenBy(r) :
        /\ pc[r] \in {"respond", "done", "failed"}
        /\ out[r].lastUpdated = LastUpdatedOf(w.Body)
        /\ w.lastUpdated = LastUpdatedOf(w.Body)
        /\ \A d \in DeliveredTo(r) : LastUpdatedOf(d.Body) = LastUpdatedOf(w.Body)

\* C36 witness: a request rewrote the object and delivered its response
\* when the clock had moved on from the stamp
C36_Witness ==
    \E r \in Requests : \E w \in WrittenBy(r) : \E d \in DeliveredTo(r) :
        /\ Succeeded(r)
        /\ LastUpdatedOf(d.Body) = LastUpdatedOf(w.Body)
        /\ LastUpdatedOf(w.Body) < clock

====
